---- MODULE Spec2Model ----
(***************************************************************************)
(* Model of src/src/recommenders.py: BaseRecommender.evaluate,             *)
(* ContentBasedRecommender / ImprovedRecommender construction and          *)
(* generate_recommendations, and BaseRecommender.set_user_data.            *)
(*                                                                         *)
(* A DataFrame is a record [cols, index, data]: cols is the sequence of    *)
(* column names, index the sequence of row keys (user ids), data maps a    *)
(* column name to the sequence of its cell values (one per row).           *)
(* Real-valued quantities are kept exact where the code's result depends   *)
(* on them: a per-user metric is a fraction [n, d] (d = 0 is the value of  *)
(* 0.0/0.0, NaN), cosine similarities are compared by cross-multiplying.   *)
(* The idf weights, the L2 row norms and the log2 discounts are fixed-point *)
(* integers.                                                               *)
(***************************************************************************)
EXTENDS Integers, Sequences, FiniteSets, TLC

VARIABLES
    files,            \* the data files on disk: items, train, test, val, reviews
    cls,              \* class of the constructed recommender, "none" before construction
    tfidf,            \* self.tfidf
    normalize,        \* self.normalize
    use_feedback,     \* self.use_feedback (ImprovedRecommender)
    metadata,         \* whether the attribute self.metadata exists (no code in the class sets it)
    items,            \* self.items: the multi-hot item feature table
    train,            \* self.train
    test,             \* self.test
    val,              \* self.val
    reviews,          \* self.reviews (ImprovedRecommender)
    recommendations,  \* self.recommendations
    ret               \* the last call: operation, arguments, outcome, returned value

vars == <<files, cls, tfidf, normalize, use_feedback, metadata, items,
          train, test, val, reviews, recommendations, ret>>

----------------------------------------------------------------------------
(* Bounds *)

MaxItems  == 5      \* largest catalog
MaxAmount == 3      \* largest `amount` passed to generate_recommendations
MaxK      == 2      \* largest cutoff k passed to evaluate

----------------------------------------------------------------------------
(* Generic helpers *)

Min(a, b) == IF a <= b THEN a ELSE b

Range(s) == {s[i] : i \in DOMAIN s}

RECURSIVE SumSeq(_)
SumSeq(s) == IF s = <<>> THEN 0 ELSE Head(s) + SumSeq(Tail(s))

\* Python slice s[:n] for n >= 0
Prefix(s, n) == SubSeq(s, 1, Min(n, Len(s)))

\* Python list(filter(keep, s))
RECURSIVE FilterSeq(_, _)
FilterSeq(s, excluded) ==
    IF s = <<>> THEN <<>>
    ELSE IF Head(s) \in excluded THEN FilterSeq(Tail(s), excluded)
         ELSE <<Head(s)>> \o FilterSeq(Tail(s), excluded)

\* the ascending sequence of a finite set of integers
RECURSIVE SetToSeq(_)
SetToSeq(S) ==
    IF S = {} THEN <<>>
    ELSE LET m == CHOOSE x \in S : \A y \in S : x <= y
         IN <<m>> \o SetToSeq(S \ {m})

----------------------------------------------------------------------------
(* DataFrames *)

EmptyFrame == [cols |-> <<>>, index |-> <<>>, data |-> [c \in {} |-> <<>>]]

HasCol(df, c) == c \in Range(df.cols)

\* positions of the rows of df
Rows(df) == 1..Len(df.index)

\* df.iloc[:n].copy(deep=True)
Head_(df, n) ==
    [cols  |-> df.cols,
     index |-> Prefix(df.index, n),
     data  |-> [c \in DOMAIN df.data |-> Prefix(df.data[c], n)]]

\* df[c] = values  (adds the column at the end, or overwrites it in place)
SetCol(df, c, values) ==
    [cols  |-> IF HasCol(df, c) THEN df.cols ELSE Append(df.cols, c),
     index |-> df.index,
     data  |-> [x \in (DOMAIN df.data) \cup {c} |->
                   IF x = c THEN values ELSE df.data[x]]]

\* df.rename(columns={old: new}, inplace=True): a no-op when old is absent
Rename(df, old, new) ==
    IF ~HasCol(df, old) THEN df
    ELSE [cols  |-> [i \in DOMAIN df.cols |->
                        IF df.cols[i] = old THEN new ELSE df.cols[i]],
          index |-> df.index,
          data  |-> [x \in ((DOMAIN df.data) \ {old}) \cup {new} |->
                        IF x = new THEN df.data[old] ELSE df.data[x]]]

----------------------------------------------------------------------------
(* Item metadata and feature encoding *)

\* The item metadata file, after _preprocess_items: one record of token sets
\* per item, item ids counted from 0.  A catalog is a prefix of this table.
RawCatalog == <<
    [genres |-> {"rpg"},     tags |-> {},          specs |-> {"single"}, developer |-> {"deva"}, publisher |-> {"puba"}],
    [genres |-> {"rpg"},     tags |-> {"rpg"},     specs |-> {"single"}, developer |-> {"devb"}, publisher |-> {"puba"}],
    [genres |-> {"shooter"}, tags |-> {},          specs |-> {"multi"},  developer |-> {"devb"}, publisher |-> {"puba"}],
    [genres |-> {"rpg"},     tags |-> {"shooter"}, specs |-> {"multi"},  developer |-> {"deva"}, publisher |-> {"puba"}],
    [genres |-> {"indie"},   tags |-> {"shooter"}, specs |-> {"single"}, developer |-> {"deva"}, publisher |-> {"puba"}],
    [genres |-> {"indie"},   tags |-> {},          specs |-> {"multi"},  developer |-> {"deva"}, publisher |-> {"puba"}],
    [genres |-> {"rpg"},     tags |-> {"indie"},   specs |-> {"single"}, developer |-> {"deva"}, publisher |-> {"puba"}],
    [genres |-> {"shooter"}, tags |-> {"indie"},   specs |-> {"multi"},  developer |-> {"devb"}, publisher |-> {"puba"}] >>

\* ContentBasedRecommender._process_item_features: the metadata columns kept
CBProcessItemFeatures == {"genres", "tags"}

\* ImprovedRecommender._process_item_features
IRProcessItemFeatures == {"genres", "tags", "specs", "developer", "publisher"}

ProcessItemFeatures(c) ==
    IF c = "ImprovedRecommender" THEN IRProcessItemFeatures ELSE CBProcessItemFeatures

\* a sequence of the elements of a finite set, in a fixed order
RECURSIVE Enumerate(_)
Enumerate(S) ==
    IF S = {} THEN <<>>
    ELSE LET x == CHOOSE y \in S : TRUE
         IN <<x>> \o Enumerate(S \ {x})

\* the sequence s with every element evaluated
Tup(s) == s \o <<>>

\* _generate_item_features: per item the union of the kept columns' token
\* sets, then MultiLabelBinarizer: one 0/1 column per distinct token
\* (mlb.classes_).  Row i+1 is the row of item id i.
GenerateItemFeatures(c, raw) ==
    LET columns == ProcessItemFeatures(c)
        tagsOf(i) == UNION {raw[i][col] : col \in columns}
        classes == Enumerate(UNION {tagsOf(i) : i \in DOMAIN raw})
    IN Tup([i \in DOMAIN raw |->
              Tup([j \in DOMAIN classes |-> IF classes[j] \in tagsOf(i) THEN 1 ELSE 0])])

\* natural logarithm of 1..10 in units of 1/4
LnQ == <<0, 3, 4, 6, 6, 7, 8, 8, 9, 9>>

\* TfidfTransformer(smooth_idf, sublinear_tf).idf_ for a column with document
\* frequency df among n rows, in units of 1/4:
\* ln(n/df) + 1, or ln((1+n)/(1+df)) + 1 with smoothing.
Idf(n, df, smooth_idf) ==
    IF smooth_idf THEN LnQ[n + 1] - LnQ[df + 1] + 4
    ELSE LnQ[n] - LnQ[df] + 4

\* sublinear_tf replaces a non-zero term frequency tf by 1 + ln(tf): the
\* multi-hot frequencies are 0 or 1 and ln(1) = 0.
Tf(tf, sublinear_tf) == IF sublinear_tf /\ tf > 0 THEN tf + LnQ[tf] ELSE tf

\* s[1] + ... + s[n]
RECURSIVE SumTo(_, _)
SumTo(s, n) == IF n = 0 THEN 0 ELSE s[n] + SumTo(s, n - 1)

Dot(a, b) == SumTo([j \in DOMAIN a |-> a[j] * b[j]], Len(a))

\* Normalizer / norm='l2': the row divided by its Euclidean length, in units
\* of 1/8 and rounded to nearest; an all-zero row is left as it is.
L2Row(row) ==
    LET n2 == Dot(row, row)
    IN Tup([j \in DOMAIN row |->
          IF row[j] = 0 THEN 0
          ELSE CHOOSE v \in 0..8 :
                 /\ (v = 0 \/ (2 * v - 1) * (2 * v - 1) * n2 <= 256 * row[j] * row[j])
                 /\ (v = 8 \/ 256 * row[j] * row[j] < (2 * v + 1) * (2 * v + 1) * n2)])

L2(X) == Tup([i \in DOMAIN X |-> L2Row(X[i])])

\* self.tfidf.fit_transform(X): tf * idf per cell, then L2 row normalisation
\* (TfidfTransformer's default norm).  tr is the transformer's parameters.
TfidfFitTransform(tr, X) ==
    LET n == Len(X)
        cols == IF n = 0 THEN {} ELSE DOMAIN X[1]
        df == Tup([j \in cols |-> Cardinality({i \in DOMAIN X : X[i][j] > 0})])
    IN L2(Tup([i \in DOMAIN X |->
             Tup([j \in cols |->
                Tf(X[i][j], tr.sublinear_tf) * Idf(n, df[j], tr.smooth_idf)])]))

\* Lines 219-234 / 319-340: the item matrix the index is fitted on.
\* The dimensionality reduction object of ImprovedRecommender is supplied by
\* the caller and is not part of this model (dim_red = None).
FeatureMatrix(itemRows, tf, norm) ==
    LET X1 == IF tf.set THEN TfidfFitTransform(tf, itemRows) ELSE itemRows
    IN IF norm THEN L2(X1) ELSE X1

\* owned_items.mean(), multiplied by the number of owned rows: the column
\* sums of the rows of the owned items (item_id is a list of item ids, a
\* repeated id counts twice).  Cosine distance does not depend on the
\* positive factor, nor on self.normalizer.transform of the vector.
UserVector(X, item_id) ==
    Tup([j \in DOMAIN X[1] |->
           SumTo([p \in DOMAIN item_id |-> X[item_id[p] + 1][j]], Len(item_id))])

\* Cosine similarity of u and x is Dot(u,x) / (|u| |x|), 0 when a norm is 0.
\* All entries are >= 0, so for a fixed u the order of similarities is the
\* order of Dot(u,x)^2 / Dot(x,x).
SimNum(u, x) == Dot(u, x) * Dot(u, x)
SimDen(x) == IF Dot(x, x) = 0 THEN 1 ELSE Dot(x, x)

\* item id a precedes item id b in ascending cosine distance (sn, sd: the
\* similarity fractions by row), ties by ascending item id
CloserThan(sn, sd, a, b) ==
    \/ sn[a + 1] * sd[b + 1] > sn[b + 1] * sd[a + 1]
    \/ sn[a + 1] * sd[b + 1] = sn[b + 1] * sd[a + 1] /\ a < b

\* The fitted index queried with the vector u: all item ids, nearest first.
Neighbors(X, u) ==
    LET N == Len(X)
        ids == 0..(N - 1)
        sn == Tup([i \in 1..N |-> SimNum(u, X[i])])
        sd == Tup([i \in 1..N |-> SimDen(X[i])])
        rank == Tup([i \in 1..N |->
                       Cardinality({j \in ids : CloserThan(sn, sd, j, i - 1)})])
    IN Tup([r \in 1..N |-> CHOOSE i \in ids : rank[i + 1] = r - 1])

\* the ids of the query handed back farthest first: what KNeighbors must not be
KNeighbors_FarthestFirst(nearest, n_neighbors) ==
    IF n_neighbors > Len(nearest) \/ n_neighbors <= 0
    THEN [error |-> "ValueError", ind |-> <<>>]
    ELSE [error |-> "", ind |-> [i \in 1..n_neighbors |-> nearest[n_neighbors + 1 - i]]]

\* NearestNeighbors.kneighbors(user_vector, n_neighbors), nearest being
\* Neighbors(X, user_vector): sklearn raises ValueError when n_neighbors
\* exceeds the number of fitted rows; otherwise the ids of the n_neighbors
\* nearest rows, nearest first.
KNeighbors(nearest, n_neighbors) ==
    IF n_neighbors > Len(nearest) \/ n_neighbors <= 0
    THEN [error |-> "ValueError", ind |-> <<>>]
    ELSE [error |-> "", ind |-> SubSeq(nearest, 1, n_neighbors)]

----------------------------------------------------------------------------
(* Construction *)

Classes == {"ContentBasedRecommender", "ImprovedRecommender"}

\* values passed as the tfidf argument of the constructor
TfidfArgs == {"none", "default", "smooth", "sublinear", "smooth_sublinear", "tf-idf"}

NoTfidf == [set |-> FALSE, smooth_idf |-> FALSE, sublinear_tf |-> FALSE]

\* ContentBasedRecommender.__init__, lines 148-156: self.tfidf is None unless
\* the argument is one of the four names of the if/elif chain.
SelectTfidf(arg) ==
    IF arg = "default" THEN [set |-> TRUE, smooth_idf |-> FALSE, sublinear_tf |-> FALSE]
    ELSE IF arg = "smooth" THEN [set |-> TRUE, smooth_idf |-> TRUE, sublinear_tf |-> FALSE]
    ELSE IF arg = "sublinear" THEN [set |-> TRUE, smooth_idf |-> FALSE, sublinear_tf |-> TRUE]
    ELSE IF arg = "smooth_sublinear" THEN [set |-> TRUE, smooth_idf |-> TRUE, sublinear_tf |-> TRUE]
    ELSE NoTfidf

\* the record of a call; fields a call does not use keep these values
NoCall ==
    [op |-> "", tfidf_arg |-> "", amount |-> 0, read_max |-> 0, k |-> 0, val |-> FALSE,
     outcome |-> "", failed_at |-> 0, printed |-> <<>>,
     report |-> <<>>, eval |-> <<>>]

\* ContentBasedRecommender(...) / ImprovedRecommender(...): __init__ of the
\* class, then BaseRecommender.__init__ (lines 25-30), which loads the files.
New(c, tfidf_arg, norm, fb, meta) ==
    /\ cls = "none"
    /\ cls' = c
    /\ tfidf' = SelectTfidf(tfidf_arg)
    /\ normalize' = norm
    /\ use_feedback' = fb
    /\ metadata' = meta
    /\ reviews' = IF c = "ImprovedRecommender" THEN files.reviews ELSE EmptyFrame
    /\ items' = GenerateItemFeatures(c, files.items)
    /\ train' = files.train
    /\ test' = files.test
    /\ val' = files.val
    /\ recommendations' = EmptyFrame
    /\ ret' = [NoCall EXCEPT !.op = "__init__", !.tfidf_arg = tfidf_arg, !.outcome = "ok"]
    /\ UNCHANGED files

\* BaseRecommender.set_user_data: reads the three interaction files again
SetUserData ==
    /\ cls # "none"
    /\ train' = files.train
    /\ test' = files.test
    /\ val' = files.val
    /\ ret' = [NoCall EXCEPT !.op = "set_user_data", !.outcome = "ok"]
    /\ UNCHANGED <<files, cls, tfidf, normalize, use_feedback, metadata, items,
                   reviews, recommendations>>

----------------------------------------------------------------------------
(* generate_recommendations *)

\* sentiment score of each item in tenths (the 'sentiment' column that line
\* 359 reads from self.metadata)
Sentiment == <<9, 2, 5, 7, 0, 10, 4, 6>>

\* Lines 357-368: the weight of each owned item: 1 / 0 for an item with an
\* explicit review of the user (liked / not), the item's sentiment otherwise.
\* Weights are in tenths.  index is the user id of the row.
FeedbackWeights(index, item_id) ==
    LET pos == {p \in Rows(reviews) : reviews.index[p] = index}
        has == pos # {}
        p == CHOOSE q \in pos : TRUE
        revs == IF has THEN reviews.data["reviews"][p] ELSE <<>>
        likes == IF has THEN reviews.data["recommend"][p] ELSE <<>>
        \* the last review of an item wins (the loop of lines 363-366)
        lastOf(it) == CHOOSE j \in DOMAIN revs :
                          revs[j] = it /\ \A j2 \in DOMAIN revs : revs[j2] = it => j2 <= j
        feedback(it) == it \in Range(revs)
        weight(it) == IF feedback(it) THEN (IF likes[lastOf(it)] THEN 10 ELSE 0) ELSE 0
    IN [j \in DOMAIN item_id |->
          \* line 367 assigns to a filtered copy and changes nothing; line 368
          IF ~feedback(item_id[j]) THEN Sentiment[item_id[j] + 1] ELSE weight(item_id[j])]

\* Lines 255-262 / 380-387: the while loop.  recommendations is the filtered
\* result of the last query; nearest is the index's answer for the user's
\* vector (the same for every query of the loop).
RECURSIVE Retrieve(_, _, _, _, _)
Retrieve(nearest, item_id, amount, gen_am, recs) ==
    IF ~(Len(recs) < amount) THEN [error |-> "", recs |-> recs]
    ELSE LET g == gen_am + (amount - Len(recs))
             nns == KNeighbors(nearest, g)
         IN IF nns.error # "" THEN [error |-> nns.error, recs |-> <<>>]
            ELSE Retrieve(nearest, item_id, amount, g,
                          FilterSeq(nns.ind, Range(item_id)))

\* `assert not owned_items.empty` skipped: what OwnedEmpty must not be
OwnedEmpty_Skipped(item_id) == FALSE

\* owned_items.empty (lines 245 / 351): items.iloc[row["item_id"], :] has no row
OwnedEmpty(item_id) == Len(item_id) = 0

\* One iteration of the loop over the users (lines 240-264 / 346-389).
ProcessUser(X, index, item_id, amount) ==
    IF OwnedEmpty(item_id)
    THEN [error |-> "AssertionError", recs |-> <<>>, printed |-> <<>>]
    ELSE IF cls = "ImprovedRecommender" /\ use_feedback
    THEN IF ~metadata
         THEN [error |-> "AttributeError", recs |-> <<>>, printed |-> <<>>]
         ELSE \* line 369 prints the weights, line 370 is `assert False`
              [error |-> "AssertionError", recs |-> <<>>,
               printed |-> FeedbackWeights(index, item_id)]
    ELSE LET r == Retrieve(Neighbors(X, UserVector(X, item_id)), item_id, amount,
                           amount \div 5, <<>>)
         IN [error |-> r.error, recs |-> Prefix(r.recs, amount), printed |-> <<>>]

\* The body of generate_recommendations(amount, read_max): the values of
\* self.train and self.recommendations after the call and the record of the
\* call.  read_max = 0 stands for None (both are false in `if read_max`).
GenerateResult(amount, read_max) ==
    LET df == IF read_max # 0 THEN Head_(train, read_max) ELSE train
        X == FeatureMatrix(items, tfidf, normalize)
        res == Tup([i \in Rows(df) |->
                      ProcessUser(X, df.index[i], df.data["item_id"][i], amount)])
        failing == {i \in Rows(df) : res[i].error # ""}
        first == CHOOSE i \in failing : \A j \in failing : i <= j
        call == [NoCall EXCEPT !.op = "generate_recommendations",
                               !.amount = amount, !.read_max = read_max]
        out == SetCol(df, "recommendations", [i \in Rows(df) |-> res[i].recs])
    IN IF failing # {}
       THEN \* the exception leaves the method before line 266 / 391
            [train |-> train, recommendations |-> recommendations,
             ret |-> [call EXCEPT !.outcome = res[first].error,
                                  !.failed_at = first,
                                  !.printed = res[first].printed]]
       ELSE \* lines 266-267 / 391-392; without read_max df is self.train itself
            [train |-> IF read_max # 0 THEN train ELSE out,
             recommendations |-> out,
             ret |-> [call EXCEPT !.outcome = "ok"]]

GenerateRecommendations(amount, read_max) ==
    /\ cls # "none"
    /\ \E r \in {GenerateResult(amount, read_max)} :
          /\ train' = r.train
          /\ recommendations' = r.recommendations
          /\ ret' = r.ret
    /\ UNCHANGED <<files, cls, tfidf, normalize, use_feedback, metadata, items,
                   test, val, reviews>>

----------------------------------------------------------------------------
(* evaluate *)

\* 1 / log2(i + 2) for rank i = 0, 1, ..., in units of 1/10000
Disc == <<10000, 6309, 5000, 4307, 3869, 3562, 3333, 3155>>

\* a fraction n/d; d = 0 is the result of 0.0/0.0 (NaN)
Frac(n, d) == [n |-> n, d |-> d]
IsNaN(x) == x.d = 0
NotComputed == Frac(-1, 0)

MetricNames == {"HR", "nDCG", "recall", "ideal_recall", "nRecall"}

\* eval = self.recommendations.merge(gt, left_index=True, right_index=True):
\* the rows of the recommendation table whose key is a key of gt (inner
\* join), each with its recommendation list and its ground-truth list.
Merge(rec, gt) ==
    LET keep == {i \in Rows(rec) : rec.index[i] \in Range(gt.index)}
        pos == SetToSeq(keep)
        gtpos(u) == CHOOSE p \in Rows(gt) : gt.index[p] = u
    IN Tup([j \in DOMAIN pos |->
          [user |-> rec.index[pos[j]],
           recommendations |-> rec.data["recommendations"][pos[j]],
           items |-> gt.data["items"][gtpos(rec.index[pos[j]])]]])

\* line 103
HRAtK(recs, gtItems) == IF \E j \in DOMAIN gtItems : gtItems[j] \in Range(recs) THEN 1 ELSE 0

\* the discount taken one rank too far, log2(i + 3): what NDCGAtK must not be
NDCGAtK_RankShifted(recs, gtItems) ==
    Frac(SumSeq([i \in DOMAIN recs |-> IF recs[i] \in Range(gtItems) THEN Disc[i + 1] ELSE 0]),
         SumSeq([i \in 1..Min(Len(recs), Len(gtItems)) |-> Disc[i]]))

\* lines 107-108: DCG over the ideal DCG; the ideal DCG runs over
\* min(len(recommendations), len(items)) ranks, items still being the list.
\* np.sum([]) is 0.0 and the division is numpy's: 0.0/0.0 is nan.
NDCGAtK(recs, gtItems) ==
    Frac(SumSeq([i \in DOMAIN recs |-> IF recs[i] \in Range(gtItems) THEN Disc[i] ELSE 0]),
         SumSeq([i \in 1..Min(Len(recs), Len(gtItems)) |-> Disc[i]]))

\* line 114, after both lists were turned into sets (lines 112-113)
RecallAtK(recs, gtItems) ==
    Frac(Cardinality(Range(recs) \cap Range(gtItems)), Cardinality(Range(gtItems)))

\* line 118
IdealRecallAtK(recs, gtItems) ==
    Frac(Min(Cardinality(Range(gtItems)), Cardinality(Range(recs))),
         Cardinality(Range(gtItems)))

\* line 122: recall@k / ideal_recall@k, both with the denominator len(items)
NRecallAtK(recall, ideal) == Frac(recall.n * ideal.d, recall.d * ideal.n)

\* Series.mean(): the mean of the values that are not NaN, in units of
\* 1/10000; NaN when there is none.
Mean(xs) ==
    LET ok == {i \in DOMAIN xs : ~IsNaN(xs[i])}
    IN IF ok = {} THEN [nan |-> TRUE, v |-> 0]
       ELSE [nan |-> FALSE,
             v |-> SumSeq([i \in DOMAIN xs |->
                              IF i \in ok THEN (xs[i].n * 10000) \div xs[i].d ELSE 0])
                     \div Cardinality(ok)]

\* The body of evaluate(k=k, val=v): the ground-truth table after the call
\* and the record of the call, one per way the call can end.  The
\* qualitative-evaluation file (lines 94-97) is not written (filename = None).
\* Line 122 divides two cells of a row: Python floats raise
\* ZeroDivisionError on 0.0/0.0, numpy floats give nan; which of the two
\* pandas hands to the lambda is not decided here, both ends are kept.
EvaluateResults(k, v) ==
    LET gt == Rename(IF v THEN val ELSE test, "item_id", "items")      \* line 87
        call == [NoCall EXCEPT !.op = "evaluate", !.k = k, !.val = v]
        hasRecs == HasCol(recommendations, "recommendations")
        joined == IF hasRecs THEN Merge(recommendations, gt) ELSE <<>>
        capped == Tup([j \in DOMAIN joined |-> Prefix(joined[j].recommendations, k)])
        its(j) == joined[j].items
        row0 == Tup([j \in DOMAIN joined |->
                   [user |-> joined[j].user, recommendations |-> capped[j],
                    items |-> its(j),
                    HR |-> Frac(HRAtK(capped[j], its(j)), 1),
                    nDCG |-> NDCGAtK(capped[j], its(j)),
                    recall |-> NotComputed, ideal_recall |-> NotComputed,
                    nRecall |-> NotComputed]])
        row1 == Tup([j \in DOMAIN joined |->
                   [row0[j] EXCEPT !.recall = RecallAtK(capped[j], its(j)),
                                   !.ideal_recall = IdealRecallAtK(capped[j], its(j))]])
        row2 == Tup([j \in DOMAIN joined |->
                   [row1[j] EXCEPT !.nRecall = NRecallAtK(row1[j].recall, row1[j].ideal_recall)]])
        col(rows, m) == [j \in DOMAIN rows |-> rows[j][m]]
        done == [call EXCEPT !.outcome = "ok", !.eval = row2,
                             !.report = [m \in MetricNames |-> Mean(col(row2, m))]]
        rets ==
          IF ~hasRecs
          THEN \* line 100: no column 'recommendations'
               {[call EXCEPT !.outcome = "KeyError"]}
          ELSE IF joined = <<>>
          THEN \* line 103: DataFrame.apply of an empty frame returns a frame
               {[call EXCEPT !.outcome = "ValueError"]}
          ELSE IF \E j \in DOMAIN joined : Range(its(j)) = {}
          THEN \* line 114: integer division by len(items) = 0
               {[call EXCEPT !.outcome = "ZeroDivisionError", !.eval = row0]}
          ELSE IF \E j \in DOMAIN joined : row1[j].ideal_recall.n = 0
          THEN \* line 122: float division by ideal_recall@k = 0.0
               {[call EXCEPT !.outcome = "ZeroDivisionError", !.eval = row1], done}
          ELSE {done}
    IN {[gt |-> gt, ret |-> r] : r \in rets}

Evaluate(k, v) ==
    /\ cls # "none"
    /\ \E r \in EvaluateResults(k, v) :
          /\ test' = IF v THEN test ELSE r.gt
          /\ val' = IF v THEN r.gt ELSE val
          /\ ret' = r.ret
    /\ UNCHANGED <<files, cls, tfidf, normalize, use_feedback, metadata, items,
                   train, reviews, recommendations>>

----------------------------------------------------------------------------
(* Initial states: the files on disk, nothing constructed yet *)

InteractionFile(lists) ==
    [cols  |-> <<"item_id", "playtime_forever">>,
     index |-> [i \in DOMAIN lists |-> i],
     data  |-> [c \in {"item_id", "playtime_forever"} |->
                  IF c = "item_id" THEN lists
                  ELSE [i \in DOMAIN lists |-> [j \in DOMAIN lists[i] |-> 60]]]]

GroundTruthFile(index, lists) ==
    [cols |-> <<"item_id">>, index |-> index, data |-> [c \in {"item_id"} |-> lists]]

ReviewsFile ==
    [cols  |-> <<"reviews", "recommend">>,
     index |-> <<1>>,
     data  |-> [c \in {"reviews", "recommend"} |->
                  IF c = "reviews" THEN << <<1, 0>> >> ELSE << <<TRUE, FALSE>> >>]]

\* owned-item lists of the first user, for a catalog of N items
OwnedLists(N) ==
    {<<>>, <<0>>, <<1, 1>>, <<0, 1, 2>>, SetToSeq(0..(N - 2)), SetToSeq(0..(N - 1))}

\* the interaction files tried with a catalog of N items
TrainFiles(N) ==
    {InteractionFile(<<o1, <<2>> >>) : o1 \in OwnedLists(N)}
        \cup {InteractionFile(<< <<0>>, <<>> >>), InteractionFile(<< <<>>, <<>> >>)}

\* ground-truth lists of the first user
GTLists == {<<>>, <<1>>, <<1, 2>>, <<2, 1, 1>>, <<4>>}

\* Either the interaction file varies (and the catalog size), or the
\* ground-truth files do; the validation file holds one user only.
InitFiles ==
    \/ \E N \in (MaxItems - 1)..MaxItems :
       \E tr \in TrainFiles(N) :
          files = [items |-> Prefix(RawCatalog, N),
                   train |-> tr,
                   test |-> GroundTruthFile(<<1, 2>>, << <<1, 2>>, <<0>> >>),
                   val |-> GroundTruthFile(<<1>>, << <<3>> >>),
                   reviews |-> ReviewsFile]
    \/ \E g1 \in GTLists :
          files = [items |-> Prefix(RawCatalog, MaxItems),
                   train |-> InteractionFile(<< <<0>>, <<2>> >>),
                   test |-> GroundTruthFile(<<1, 2>>, <<g1, <<0>> >>),
                   val |-> GroundTruthFile(<<2>>, << g1 >>),
                   reviews |-> ReviewsFile]

Init ==
    /\ InitFiles
    /\ cls = "none"
    /\ tfidf = NoTfidf
    /\ normalize = FALSE
    /\ use_feedback = FALSE
    /\ metadata = FALSE
    /\ items = <<>>
    /\ train = EmptyFrame
    /\ test = EmptyFrame
    /\ val = EmptyFrame
    /\ reviews = EmptyFrame
    /\ recommendations = EmptyFrame
    /\ ret = NoCall

\* Constructor arguments.  ContentBasedRecommender is built with every tfidf
\* argument, and with row normalisation on the plain multi-hot matrix
\* (tf-idf rows are L2-normalised already); ImprovedRecommender with its
\* default tfidf, with and without feedback weighting (use_feedback).
NewAny ==
    \E c \in Classes, a \in TfidfArgs, norm \in BOOLEAN, fb \in BOOLEAN, meta \in BOOLEAN :
        /\ c = "ImprovedRecommender" => a = "default" /\ ~norm
        /\ fb => c = "ImprovedRecommender"
        /\ meta => fb
        /\ norm => a = "none"
        /\ New(c, a, norm, fb, meta)

GenerateAny == \E amount \in 1..MaxAmount, read_max \in 0..1 : GenerateRecommendations(amount, read_max)

EvaluateAny == \E k \in 0..MaxK, v \in BOOLEAN : Evaluate(k, v)

Next == NewAny \/ GenerateAny \/ EvaluateAny \/ SetUserData

Spec == Init /\ [][Next]_vars

----------------------------------------------------------------------------
(* Properties *)

IsGenerate == ret.op = "generate_recommendations"
IsEvaluate == ret.op = "evaluate"

\* plain mode: the user vector is the mean of the owned rows
PlainMode == ~(cls = "ImprovedRecommender" /\ use_feedback)

\* the rows the last generate_recommendations call went through
Processed == IF ret.read_max # 0 THEN Head_(train, ret.read_max) ELSE train

AllOwnedNonEmpty(df) == \A i \in Rows(df) : Len(df.data["item_id"][i]) > 0

\* number of catalog items outside a user's owned-item list
Available(item_id) == Len(items) - Cardinality(Range(item_id))

RecsOf(df, i) == df.data["recommendations"][i]

\* the items user u has reviewed, by the review table of the recommender
ReviewedBy(u) ==
    UNION {Range(reviews.data["reviews"][p]) : p \in {q \in Rows(reviews) : reviews.index[q] = u}}

\* C1: after generate_recommendations(amount) in plain mode over users whose
\* owned-item lists are all non-empty, a recommendation table has been
\* produced in which every processed user's list has exactly
\* min(amount, catalog size - |exclusion set|) entries.
C1_ListLengthIsMinOfAmountAndAvailable ==
    (IsGenerate /\ PlainMode /\ AllOwnedNonEmpty(Processed)) =>
        /\ ret.outcome = "ok"
        /\ recommendations.index = Processed.index
        /\ \A i \in Rows(recommendations) :
              Len(RecsOf(recommendations, i)) =
                  Min(ret.amount, Available(recommendations.data["item_id"][i]))

\* C2: no identifier in a user's recommendation list is in that user's
\* exclusion set: the items the user owns (the interaction row) or has
\* reviewed (the review table).
C2_NoOwnedOrReviewedItemRecommended ==
    HasCol(recommendations, "recommendations") =>
        \A i \in Rows(recommendations) :
            Range(RecsOf(recommendations, i))
                \cap (Range(recommendations.data["item_id"][i])
                        \cup ReviewedBy(recommendations.index[i])) = {}

\* C3: the adaptive retrieval loop of every user ends normally and the call
\* returns: a generate_recommendations call never ends in the error of a
\* neighbor query for more neighbors than the catalog holds.
C3_RetrievalLoopEndsNormally ==
    IsGenerate => ret.outcome # "ValueError"

\* C4: a generate_recommendations call over a table in which some user has an
\* empty owned-item list fails: it stops at that user with the failed
\* assertion (or earlier, at a user whose retrieval failed), skips nobody,
\* and leaves the interaction table and the stored recommendation table as
\* they were.
C4_EmptyOwnedListHaltsGeneration ==
    [][LET df == IF ret'.read_max # 0 THEN Head_(train, ret'.read_max) ELSE train
           empty == {i \in Rows(df) : Len(df.data["item_id"][i]) = 0}
           firstEmpty == CHOOSE i \in empty : \A j \in empty : i <= j
       IN (ret'.op = "generate_recommendations" /\ empty # {}) =>
              /\ ret'.outcome # "ok"
              /\ ret'.failed_at \in 1..firstEmpty
              /\ ret'.failed_at = firstEmpty => ret'.outcome = "AssertionError"
              /\ recommendations' = recommendations
              /\ train' = train]_vars

\* C4 happens: the second user's list is empty, the first user was processed,
\* the call ended in the assertion, and a table stored by an earlier call is
\* still there.
C4_Witness ==
    /\ IsGenerate /\ PlainMode
    /\ ret.outcome = "AssertionError"
    /\ ret.failed_at = 2
    /\ Len(Processed.data["item_id"][1]) > 0
    /\ HasCol(recommendations, "recommendations")

InUnit(x) == x.d > 0 /\ 0 <= x.n /\ x.n <= x.d

\* C5: every per-user value evaluate computes is in range: HR@k is 0 or 1,
\* nDCG@k, recall@k and ideal_recall@k are in [0,1], nRecall@k is in [0,1]
\* or undefined with ideal_recall@k = 0.
C5_PerUserMetricsInRange ==
    IsEvaluate =>
        \A j \in DOMAIN ret.eval :
            LET r == ret.eval[j]
            IN /\ r.HR.d = 1 /\ r.HR.n \in {0, 1}
               /\ InUnit(r.nDCG)
               /\ r.recall # NotComputed => InUnit(r.recall) /\ InUnit(r.ideal_recall)
               /\ r.nRecall # NotComputed =>
                     InUnit(r.nRecall) \/ (IsNaN(r.nRecall) /\ r.ideal_recall.n = 0)

\* the evaluated users of the last call whose case is Scenario 2: k = 2,
\* recommendations [B, C], ground truth {B, D}
ScenarioRows ==
    {j \in DOMAIN ret.eval :
        LET r == ret.eval[j]
        IN /\ IsEvaluate /\ ret.outcome = "ok" /\ ret.k = 2
           /\ Len(r.recommendations) = 2
           /\ Len(r.items) = 2 /\ Cardinality(Range(r.items)) = 2
           /\ r.recommendations[1] \in Range(r.items)
           /\ r.recommendations[2] \notin Range(r.items)}

ScenarioBase(r) ==
    /\ r.HR = Frac(1, 1)
    /\ r.recall = Frac(1, 2)
    /\ r.ideal_recall = Frac(2, 2)
    /\ InUnit(r.nRecall) /\ 2 * r.nRecall.n = r.nRecall.d

\* C6 as stated: for recommendations [B,C], ground truth {B,D} and k = 2,
\* HR@2 = 1, recall@2 = 0.5, ideal_recall@2 = 1.0, nRecall@2 = 0.5 and
\* nDCG@2 = (1/log2(3)) / (1/log2(2) + 1/log2(3)).
C6_ScenarioMetricsAsStated ==
    \A j \in ScenarioRows :
        /\ ScenarioBase(ret.eval[j])
        /\ ret.eval[j].nDCG.n * (Disc[1] + Disc[2]) = Disc[2] * ret.eval[j].nDCG.d

\* C6 amended: the same, with nDCG@2 = (1/log2(2)) / (1/log2(2) + 1/log2(3)):
\* the hit B is at rank 0, whose discount is 1/log2(2).
C6_ScenarioMetrics ==
    \A j \in ScenarioRows :
        /\ ScenarioBase(ret.eval[j])
        /\ ret.eval[j].nDCG = Frac(Disc[1], Disc[1] + Disc[2])

\* C6 happens: a user with recommendations [B, C] and ground truth {B, D}
\* was evaluated at k = 2.
C6_Witness == ScenarioRows # {}

\* C7: when a joined user's ground-truth list is empty, evaluate still
\* returns the metric report.
C7_EmptyGroundTruthIsGuarded ==
    (IsEvaluate /\ \E j \in DOMAIN ret.eval : ret.eval[j].items = <<>>) =>
        ret.outcome = "ok"

\* C8: in feedback-weighted mode generate_recommendations completes and
\* stores one recommendation record per processed user.
C8_FeedbackModeCompletes ==
    (IsGenerate /\ ~PlainMode /\ AllOwnedNonEmpty(Processed)) =>
        /\ ret.outcome = "ok"
        /\ HasCol(recommendations, "recommendations")
        /\ recommendations.index = Processed.index

\* C9: the train, test and validation tables of the recommender keep the
\* columns, the column names and the values they were loaded with.
C9_InputTablesAreReadOnly ==
    cls # "none" =>
        /\ train = files.train
        /\ test = files.test
        /\ val = files.val

RecognizedTfidf == {"none", "default", "smooth", "sublinear", "smooth_sublinear"}

\* C10: a constructor call with a tfidf argument that is not a recognized
\* value fails, and no recommender is built.
C10_UnknownTfidfIsRejected ==
    (ret.op = "__init__" /\ ret.tfidf_arg \notin RecognizedTfidf) =>
        ret.outcome # "ok" /\ cls = "none"

\* item a is at most as far from the query vector u as item b, in cosine
\* distance over the rows of X
NotFarther(X, u, a, b) ==
    SimNum(u, X[a + 1]) * SimDen(X[b + 1]) >= SimNum(u, X[b + 1]) * SimDen(X[a + 1])

\* the list recs is nearest-first for the user who owns item_id
NearestFirst(X, item_id, recs) ==
    \A u \in {UserVector(X, item_id)} :
        \A p \in 1..(Len(recs) - 1) : NotFarther(X, u, recs[p], recs[p + 1])

\* C11: in every stored recommendation list the cosine distance from the
\* user's query vector (the mean of the owned rows of the fitted item
\* matrix) never decreases from one entry to the next.
C11_RecommendationsNearestFirst ==
    HasCol(recommendations, "recommendations") =>
        \A X \in {FeatureMatrix(items, tfidf, normalize)} :
            \A i \in Rows(recommendations) :
                NearestFirst(X, recommendations.data["item_id"][i], RecsOf(recommendations, i))

\* C11 happens: a stored list of at least two entries whose last entry is
\* strictly farther than its first, produced by more than one query of the
\* loop (the first query, of `amount` neighbors, returned an owned item).
C11_Witness ==
    /\ IsGenerate /\ ret.outcome = "ok" /\ ret.amount >= 2
    /\ \E X \in {FeatureMatrix(items, tfidf, normalize)} :
       \E i \in Rows(recommendations) :
          LET item_id == recommendations.data["item_id"][i]
              recs == RecsOf(recommendations, i)
              u == UserVector(X, item_id)
          IN /\ Len(recs) >= 2
             /\ ~NotFarther(X, u, recs[Len(recs)], recs[1])
             /\ Range(Prefix(Neighbors(X, u), ret.amount)) \cap Range(item_id) # {}

====
